---- MODULE Spec2Model ----
(***************************************************************************)
(* Model of whisper-server.py: a Flask application with the handlers       *)
(* transcribe (POST /v1/audio/transcriptions) and health (GET /health).    *)
(* Several requests are handled at the same time.  A step of transcribe    *)
(* ends where the handler waits for model.transcribe or has finished:      *)
(* validation (lines 24-34), the with block and the entry into             *)
(* model.transcribe (36-49), its return together with the finally block    *)
(* and the response (45-69).                                               *)
(*                                                                         *)
(* A local of the handler holds a value only while the handler runs.       *)
(* raised and unlinkExc record what the environment raised for a request,  *)
(* result what model.transcribe returned to the request Probe (the         *)
(* handler runs the same code for every request).  Exceptions are          *)
(* instances of Exception (what `except Exception` catches).               *)
(*                                                                         *)
(* health() has no blocking point: it is enabled in every state of the     *)
(* transcribe handlers, and its response is sent (HealthSent) before one   *)
(* of them takes its next step.                                            *)
(***************************************************************************)
EXTENDS Integers, Sequences, FiniteSets, TLC

\* ---------------------------------------------------------------- bounds
NumReqs == 2        \* transcription requests, all possibly in flight at once
MaxTextLen == 2     \* longest text the capability returns

Reqs == 1..NumReqs
\* names NamedTemporaryFile draws from: one per request, so that a free
\* name always exists
Names == 1..NumReqs
\* the request whose transcription result is recorded
Probe == CHOOSE r \in Reqs : TRUE

\* ------------------------------------------------------------ Python values
None == "<None>"

\* a dict is a set of <<key, value>> pairs
Has(d, k) == \E p \in d : p[1] = k
Get(d, k, default) == IF Has(d, k) THEN (CHOOSE p \in d : p[1] = k)[2] ELSE default

\* exceptions: BaseException.args; str(e) of a one-argument exception is
\* that argument, of an exception without arguments the empty string
Exc(m) == [args |-> <<m>>]
NoExc == [args |-> <<>>]
Str(e) == IF Len(e.args) = 0 THEN "" ELSE e.args[1]

\* str.strip(): leading and trailing whitespace removed
Chars == {"a", " "}
Whitespace == {" "}
RECURSIVE LStrip(_)
LStrip(s) == IF s = <<>> THEN s
             ELSE IF Head(s) \in Whitespace THEN LStrip(Tail(s)) ELSE s
RECURSIVE RStrip(_)
RStrip(s) == IF s = <<>> THEN s
             ELSE IF s[Len(s)] \in Whitespace THEN RStrip(SubSeq(s, 1, Len(s) - 1)) ELSE s
\* faulty variant: lstrip() for strip()
Strip_lstripOnly(s) == LStrip(s)
Strip(s) == RStrip(LStrip(s))

\* ------------------------------------------------------------ inputs
Filenames == {"", "a.webm"}
Languages == {"auto", "", "fr", "AUTO"}
FilesDicts == {{}} \cup {{<<"file", f>>} : f \in Filenames}
FormDicts == {{}} \cup {{<<"language", l>>} : l \in Languages}
Requests == [files : FilesDicts, form : FormDicts]
NoRequest == [files |-> {}, form |-> {<<"none", None>>}]

Texts == UNION {[1..n -> Chars] : n \in 0..MaxTextLen}
\* what model.transcribe returns: a dict with a 'text' entry, or without one
Results == {{}} \cup {{<<"text", t>>} : t \in Texts}
NoResult == {<<"none", <<>>>>}

\* what the environment raises: OSError of the file system, errors of the model
OSErrors == {Exc("disk full")}
ModelErrors == {Exc("boom")}

\* ------------------------------------------------------------ responses
\* jsonify(body), status: a response is its status and its JSON object
Resp(status, body) == [status |-> status, body |-> body]
NoResp == [status |-> 0, body |-> {}]

\* lines 67-69: except Exception as e: return jsonify({'error': str(e)}), 500
\* faulty variant: a fixed message for str(e)
ErrorResponse_generic(e) == Resp(500, {<<"error", "Internal Server Error">>})
ErrorResponse(e) == Resp(500, {<<"error", Str(e)>>})

\* lines 56-58: return jsonify({'text': text})
TextResponse(text) == Resp(200, {<<"text", text>>})

\* lines 26-31: the two validation checks; NoResp when both pass
\* faulty variants: one of the two checks missing
ValidationResponse_noNameCheck(req) ==
    IF ~Has(req.files, "file") THEN Resp(400, {<<"error", "No file provided">>})
    ELSE NoResp
ValidationResponse_noFileCheck(req) ==
    IF Get(req.files, "file", "a.webm") = "" THEN Resp(400, {<<"error", "No file selected">>})
    ELSE NoResp
ValidationResponse(req) ==
    IF ~Has(req.files, "file") THEN Resp(400, {<<"error", "No file provided">>})
    ELSE IF Get(req.files, "file", None) = "" THEN Resp(400, {<<"error", "No file selected">>})
    ELSE NoResp

\* line 47: language if language and language != 'auto' else None
\* faulty variants: "auto" not recognised; "auto" recognised in any casing
LanguageHint_noAuto(language) ==
    IF language # None /\ language # "" THEN language ELSE None
LanguageHint_anyCase(language) ==
    IF language # None /\ language # "" /\ language \notin {"auto", "AUTO"}
    THEN language ELSE None
LanguageHint(language) ==
    IF language # None /\ language # "" /\ language # "auto" THEN language ELSE None

\* line 37: NamedTemporaryFile(delete=False, suffix='.webm')
TempName(n) == [stem |-> n, suffix |-> ".webm"]
NoPath == [stem |-> 0, suffix |-> ""]

\* lines 45-49: the arguments of model.transcribe
CallArgs(path, language) == [path |-> path, language |-> LanguageHint(language), fp16 |-> FALSE]
NoCall == [path |-> NoPath, language |-> None, fp16 |-> TRUE]

\* a file of the temp directory: who created it, whose upload it holds
NoFile == [owner |-> 0, data |-> 0]

\* ------------------------------------------------------------ state
VARIABLES
    pc,          \* per request: position of the handler
    request,     \* per request: request.files and request.form
    language,    \* per request: local of line 34
    tmp_path,    \* per request: local of line 39
    callArgs,    \* per request: arguments of the running model.transcribe call
    calls,       \* per request: how often model.transcribe was invoked
    result,      \* what model.transcribe returned to request Probe
    raised,      \* per request: the exception raised by file handling or the call
    unlinkExc,   \* per request: the exception os.unlink raised
    resp,        \* per request: the response the handler returned
    fs,          \* the temp directory
    healthResp   \* the response of health() on its way to the client

vars == <<pc, request, language, tmp_path, callArgs, calls, result,
          raised, unlinkExc, resp, fs, healthResp>>

Init ==
    /\ pc = [r \in Reqs |-> "idle"]
    /\ request = [r \in Reqs |-> NoRequest]
    /\ language = [r \in Reqs |-> None]
    /\ tmp_path = [r \in Reqs |-> NoPath]
    /\ callArgs = [r \in Reqs |-> NoCall]
    /\ calls = [r \in Reqs |-> 0]
    /\ result = NoResult
    /\ raised = [r \in Reqs |-> NoExc]
    /\ unlinkExc = [r \in Reqs |-> NoExc]
    /\ resp = [r \in Reqs |-> NoResp]
    /\ fs = [n \in Names |-> NoFile]
    /\ healthResp = NoResp

\* POST /v1/audio/transcriptions arrives (line 22)
Receive(r) ==
    /\ pc[r] = "idle"
    /\ healthResp = NoResp
    /\ \E req \in Requests : request' = [request EXCEPT ![r] = req]
    /\ pc' = [pc EXCEPT ![r] = "validate"]
    /\ UNCHANGED <<language, tmp_path, callArgs, calls, result, raised,
                   unlinkExc, resp, fs, healthResp>>

\* the handler returns response rsp; its locals are gone
Return(r, rsp) ==
    /\ resp' = [resp EXCEPT ![r] = rsp]
    /\ request' = [request EXCEPT ![r] = NoRequest]
    /\ language' = [language EXCEPT ![r] = None]
    /\ tmp_path' = [tmp_path EXCEPT ![r] = NoPath]
    /\ callArgs' = [callArgs EXCEPT ![r] = NoCall]
    /\ pc' = [pc EXCEPT ![r] = "done"]

\* lines 67-69: exception e reaches except Exception
Fail(r, e) ==
    /\ raised' = [raised EXCEPT ![r] = e]
    /\ Return(r, ErrorResponse(e))

\* lines 24-34
Validate(r) ==
    /\ pc[r] = "validate"
    /\ healthResp = NoResp
    /\ IF ValidationResponse(request[r]) # NoResp
       THEN Return(r, ValidationResponse(request[r]))
       ELSE /\ language' = [language EXCEPT ![r] = Get(request[r].form, "language", None)]
            /\ pc' = [pc EXCEPT ![r] = "save"]
            /\ UNCHANGED <<resp, request, tmp_path, callArgs>>
    /\ UNCHANGED <<calls, result, raised, unlinkExc, fs, healthResp>>

\* lines 36-49: NamedTemporaryFile creates a new file under a free name or
\* raises; file.save writes the upload into it or raises; the file was
\* opened with delete=False, leaving the with block closes it only; then
\* model.transcribe is entered
SaveUpload(r) ==
    /\ pc[r] = "save"
    /\ healthResp = NoResp
    /\ \/ /\ \E e \in OSErrors : Fail(r, e)
          /\ UNCHANGED <<fs, calls>>
       \/ \E n \in Names :
            /\ fs[n] = NoFile
            /\ \/ /\ fs' = [fs EXCEPT ![n] = [owner |-> r, data |-> 0]]
                  /\ \E e \in OSErrors : Fail(r, e)
                  /\ UNCHANGED calls
               \/ /\ fs' = [fs EXCEPT ![n] = [owner |-> r, data |-> r]]
                  /\ tmp_path' = [tmp_path EXCEPT ![r] = TempName(n)]
                  /\ callArgs' = [callArgs EXCEPT ![r] = CallArgs(TempName(n), language[r])]
                  /\ calls' = [calls EXCEPT ![r] = @ + 1]
                  /\ pc' = [pc EXCEPT ![r] = "in_call"]
                  /\ UNCHANGED <<resp, raised, request, language>>
    /\ UNCHANGED <<result, unlinkExc, healthResp>>

\* lines 60-65: os.unlink(tmp_path), its exception swallowed
Unlink(r) ==
    \/ /\ fs' = [fs EXCEPT ![tmp_path[r].stem] = NoFile]
       /\ UNCHANGED unlinkExc
    \/ /\ \E e \in OSErrors : unlinkExc' = [unlinkExc EXCEPT ![r] = e]
       /\ UNCHANGED fs

\* lines 45-69: model.transcribe returns or raises, the finally block runs,
\* the handler returns the text or the exception reaches except Exception
\* faulty variant: a failed call is made once more
TranscribeReturn_retry(r) ==
    /\ pc[r] = "in_call"
    /\ healthResp = NoResp
    /\ \/ /\ \E res \in Results :
               /\ result' = IF r = Probe THEN res ELSE result
               /\ Return(r, TextResponse(Strip(Get(res, "text", <<>>))))
          /\ Unlink(r)
          /\ UNCHANGED <<raised, calls>>
       \/ /\ calls[r] < 2
          /\ calls' = [calls EXCEPT ![r] = @ + 1]
          /\ UNCHANGED <<pc, request, language, tmp_path, callArgs, result, raised,
                         unlinkExc, resp, fs>>
    /\ UNCHANGED healthResp

TranscribeReturn(r) ==
    /\ pc[r] = "in_call"
    /\ healthResp = NoResp
    /\ \/ /\ \E res \in Results :
               /\ result' = IF r = Probe THEN res ELSE result
               /\ Return(r, TextResponse(Strip(Get(res, "text", <<>>))))
          /\ UNCHANGED raised
       \/ /\ \E e \in ModelErrors : Fail(r, e)
          /\ UNCHANGED result
    /\ Unlink(r)
    /\ UNCHANGED <<calls, healthResp>>

\* lines 71-73: GET /health arrives and is answered
\* faulty variant: 503 while a transcription runs
Health_readiness ==
    /\ healthResp = NoResp
    /\ healthResp' = IF \E r \in Reqs : pc[r] = "in_call"
                     THEN Resp(503, {<<"status", "busy">>, <<"service", "whisper-transcription">>})
                     ELSE Resp(200, {<<"status", "healthy">>, <<"service", "whisper-transcription">>})
    /\ UNCHANGED <<pc, request, language, tmp_path, callArgs, calls, result,
                   raised, unlinkExc, resp, fs>>

Health ==
    /\ healthResp = NoResp
    /\ healthResp' = Resp(200, {<<"status", "healthy">>, <<"service", "whisper-transcription">>})
    /\ UNCHANGED <<pc, request, language, tmp_path, callArgs, calls, result,
                   raised, unlinkExc, resp, fs>>

\* the response of health() has been sent
HealthSent ==
    /\ healthResp # NoResp
    /\ healthResp' = NoResp
    /\ UNCHANGED <<pc, request, language, tmp_path, callArgs, calls, result,
                   raised, unlinkExc, resp, fs>>

Next ==
    \/ \E r \in Reqs : Receive(r)
    \/ \E r \in Reqs : Validate(r)
    \/ \E r \in Reqs : SaveUpload(r)
    \/ \E r \in Reqs : TranscribeReturn(r)
    \/ Health
    \/ HealthSent

Spec == Init /\ [][Next]_vars

\* ============================================================ properties
Done(r) == pc[r] = "done"
FileOf(req) == Get(req.files, "file", None)
LanguageOf(req) == Get(req.form, "language", None)
ErrorBody(b, m) == Cardinality(b) = 1 /\ Has(b, "error") /\ Get(b, "error", "") = m
TextBody(b, t) == Cardinality(b) = 1 /\ Has(b, "text") /\ Get(b, "text", <<>>) = t
OwnsFile(r) == \E n \in Names : fs[n].owner = r

\* t is s without its leading and trailing whitespace
IsTrimOf(t, s) ==
    /\ \E i \in 0..Len(s) : \E j \in 0..Len(s) :
         /\ i + Len(t) + j = Len(s)
         /\ \A k \in 1..i : s[k] \in Whitespace
         /\ \A k \in (Len(s) - j + 1)..Len(s) : s[k] \in Whitespace
         /\ \A k \in 1..Len(t) : t[k] = s[i + k]
    /\ t = <<>> \/ (t[1] \notin Whitespace /\ t[Len(t)] \notin Whitespace)

\* C1: when the handler of a request has returned its response, no temporary
\* file created by that request exists any more, whatever the exit path.
C1_NoTempFileAfterReturn ==
    \A r \in Reqs : Done(r) => ~OwnsFile(r)

\* C2: a request without a `file` field or with an empty filename leaves the
\* validation with HTTP 400 and a body holding an `error` key, whatever its
\* `language` field.
C2_MissingFileIs400 ==
    [][\A r \in Reqs :
         (/\ pc[r] = "validate"
          /\ pc'[r] # "validate"
          /\ (~Has(request[r].files, "file") \/ FileOf(request[r]) = ""))
         => (/\ Done(r)'
             /\ resp'[r].status = 400
             /\ Has(resp'[r].body, "error"))]_vars

C2_Witness ==
    \E r \in Reqs : \E q \in Reqs :
        /\ Done(r) /\ resp[r].status = 400 /\ ErrorBody(resp[r].body, "No file provided")
        /\ Done(q) /\ resp[q].status = 400 /\ ErrorBody(resp[q].body, "No file selected")

\* C3 as stated: an exception with message m raised by the transcribe call
\* or by the temp-file handling (creation, save, delete) gives the response
\* 500 {"error": m}.
C3_AnyExceptionIs500 ==
    \A r \in Reqs : Done(r) =>
        /\ raised[r] # NoExc =>
             resp[r].status = 500 /\ ErrorBody(resp[r].body, raised[r].args[1])
        /\ (raised[r] = NoExc /\ unlinkExc[r] # NoExc) =>
             resp[r].status = 500 /\ ErrorBody(resp[r].body, unlinkExc[r].args[1])

\* C3 amended: an exception with message m raised by the transcribe call, by
\* the creation of the temp file or by the save of the upload gives the
\* response 500 {"error": m}; an exception of the final delete is swallowed
\* and the response stays the one of the transcription.
C3_RaisedIs500 ==
    \A r \in Reqs : Done(r) =>
        /\ raised[r] # NoExc =>
             resp[r].status = 500 /\ ErrorBody(resp[r].body, raised[r].args[1])
        /\ (raised[r] = NoExc /\ unlinkExc[r] # NoExc) =>
             resp[r].status = 200 /\ Has(resp[r].body, "text")

C3_Witness ==
    \E r \in Reqs : \E q \in Reqs :
        /\ Done(r) /\ raised[r] = Exc("boom") /\ resp[r].status = 500
        /\ Done(q) /\ raised[q] = Exc("disk full") /\ resp[q].status = 500

\* C4: a request without `language` and a request with language=auto invoke
\* the capability identically: language hint None, suffix .webm, fp16 False.
C4_AutoEqualsOmitted ==
    /\ \A r \in Reqs :
         (pc[r] = "in_call" /\ LanguageOf(request[r]) \in {None, "auto"}) =>
            /\ callArgs[r].language = None
            /\ callArgs[r].path.suffix = ".webm"
            /\ callArgs[r].fp16 = FALSE
    /\ \A r \in Reqs : \A q \in Reqs :
         (/\ pc[r] = "in_call" /\ ~Has(request[r].form, "language")
          /\ pc[q] = "in_call" /\ LanguageOf(request[q]) = "auto") =>
            [callArgs[r] EXCEPT !.path.stem = 0] = [callArgs[q] EXCEPT !.path.stem = 0]

C4_Witness ==
    \E r \in Reqs : \E q \in Reqs :
        /\ pc[r] = "in_call" /\ ~Has(request[r].form, "language")
        /\ pc[q] = "in_call" /\ LanguageOf(request[q]) = "auto"

\* C5 as stated: every present `language` value other than "auto", the empty
\* string included, is the language hint of the invocation, unchanged.
C5_PresentIsVerbatim ==
    \A r \in Reqs :
        (/\ pc[r] = "in_call"
         /\ Has(request[r].form, "language")
         /\ LanguageOf(request[r]) # "auto")
        => callArgs[r].language = LanguageOf(request[r])

\* C5 amended: every present, non-empty `language` value other than "auto"
\* ("fr", "AUTO") is the language hint of the invocation, unchanged; the
\* empty string gives the hint None.
C5_NonEmptyIsVerbatim ==
    \A r \in Reqs : pc[r] = "in_call" =>
        /\ (/\ Has(request[r].form, "language")
            /\ LanguageOf(request[r]) \notin {"auto", ""})
           => callArgs[r].language = LanguageOf(request[r])
        /\ (/\ Has(request[r].form, "language")
            /\ LanguageOf(request[r]) = "")
           => callArgs[r].language = None

C5_Witness ==
    \E r \in Reqs : \E q \in Reqs :
        /\ pc[r] = "in_call" /\ LanguageOf(request[r]) = "AUTO"
        /\ pc[q] = "in_call" /\ Has(request[q].form, "language")
        /\ LanguageOf(request[q]) = ""

\* C6: when the transcribe call has returned, the handler returns 200
\* {"text": t}, t being the returned text without leading and trailing
\* whitespace (the empty text when the result has no text entry); trimming
\* t again gives t.
C6_TrimmedText ==
    (Done(Probe) /\ result # NoResult) =>
        LET t == Get(resp[Probe].body, "text", <<" ">>) IN
        /\ resp[Probe].status = 200
        /\ TextBody(resp[Probe].body, t)
        /\ IsTrimOf(t, Get(result, "text", <<>>))
        /\ IsTrimOf(t, t)
        /\ ~Has(result, "text") => t = <<>>

C6_Witness ==
    /\ Done(Probe) /\ result = {<<"text", <<" ", "a">>>>}
    /\ unlinkExc[Probe] # NoExc
    /\ resp[Probe].status = 200 /\ TextBody(resp[Probe].body, <<"a">>)

\* C7: the capability is invoked at most once per request; after a failed
\* invocation the handler goes on to its error response only.
C7_AtMostOneCall ==
    \A r \in Reqs :
        /\ calls[r] <= 1
        /\ (pc[r] = "in_call" \/ raised[r] \in ModelErrors) => calls[r] = 1

C7_Witness ==
    \E r \in Reqs :
        /\ Done(r) /\ raised[r] \in ModelErrors /\ calls[r] = 1 /\ resp[r].status = 500

\* C8: temporary files of different requests are different files; the
\* transcribe call of a request reads the file this request created and
\* saved, which exists during the whole call; a file is deleted by the
\* request that created it only, and before that request's handler returns.
C8_OwnFile ==
    /\ \A r \in Reqs : \A q \in Reqs :
         (r # q /\ tmp_path[r] # NoPath /\ tmp_path[q] # NoPath) => tmp_path[r] # tmp_path[q]
    /\ \A r \in Reqs : \A q \in Reqs :
         (r # q /\ pc[r] = "in_call" /\ pc[q] = "in_call")
            => callArgs[r].path # callArgs[q].path
    /\ \A r \in Reqs : pc[r] = "in_call" =>
         /\ callArgs[r].path = tmp_path[r]
         /\ callArgs[r].path.stem \in Names
         /\ fs[callArgs[r].path.stem] = [owner |-> r, data |-> r]
    /\ \A r \in Reqs : \A n \in Names :
         fs[n].owner = r => (fs[n].data \in {0, r} /\ tmp_path[r] \in {NoPath, TempName(n)})

C8_DeletedByOwner ==
    \A n \in Names : \A r \in Reqs :
        (fs[n].owner = r /\ fs'[n].owner # r) => (pc[r] = "in_call" /\ pc'[r] = "done")

C8_Isolation ==
    [][C8_OwnFile' /\ C8_DeletedByOwner /\ C1_NoTempFileAfterReturn']_vars

\* the part of C8 that does not depend on the deletion having happened
C8_IsolationWithoutCleanup ==
    [][C8_OwnFile' /\ C8_DeletedByOwner]_vars

\* C9: health() answers every GET /health with 200 and the fixed body, and
\* leaves the temp directory, the invocations and every handler untouched.
C9_HealthAlways200 ==
    [][(healthResp = NoResp /\ healthResp' # NoResp) =>
         /\ healthResp'.status = 200
         /\ healthResp'.body = {<<"status", "healthy">>, <<"service", "whisper-transcription">>}
         /\ fs' = fs /\ calls' = calls /\ callArgs' = callArgs /\ pc' = pc]_vars

C9_Witness ==
    /\ healthResp.status = 200
    /\ \E r \in Reqs : \E q \in Reqs :
         /\ pc[r] = "in_call"
         /\ Done(q) /\ resp[q].status = 500

\* C10: a rejection by validation creates no temporary file and invokes
\* nothing; the capability runs only for a request with a `file` field of
\* non-empty filename whose upload was saved to its temporary file.
C10_ValidationFrame ==
    \A r \in Reqs :
        /\ resp[r].status = 400 =>
             /\ calls[r] = 0 /\ ~OwnsFile(r)
             /\ raised[r] = NoExc /\ unlinkExc[r] = NoExc
        /\ calls[r] > 0 => resp[r].status # 400
        /\ pc[r] = "in_call" =>
             /\ Has(request[r].files, "file")
             /\ FileOf(request[r]) # ""
             /\ tmp_path[r].stem \in Names
             /\ fs[tmp_path[r].stem] = [owner |-> r, data |-> r]

C10_Witness ==
    \E r \in Reqs : \E q \in Reqs :
        /\ Done(r) /\ resp[r].status = 400 /\ calls[r] = 0
        /\ pc[q] = "in_call" /\ calls[q] = 1

====
